---------------------------- MODULE Spec2Model ----------------------------
(***************************************************************************)
(* Model of the weather lookup UI of src/index.tsx: the request/response   *)
(* controller of the App component (its five useState cells, the           *)
(* getWeather submit handler, the outstanding generateContent calls) and   *)
(* the getBeaufortDescription helper.                                      *)
(*                                                                         *)
(* The root is created with ReactDOM.createRoot (line 366), so the state   *)
(* setters called in one synchronous stretch of the handler are batched    *)
(* into one render: each stretch (up to the await, and from the await to   *)
(* the end of the finally block) is one atomic step of the model.          *)
(***************************************************************************)
EXTENDS Integers, Sequences, FiniteSets, TLC

VARIABLES
  city,          \* useState('')                       line 136
  selectedDate,  \* useState(today)                    line 137
  weather,       \* useState<WeatherData | null>(null) line 138
  loading,       \* useState(false)                    line 139
  error,         \* useState<string | null>(null)      line 140
  requests,      \* log of the generateContent calls issued, with their progress
  lastResponse,  \* what the call consumed by the latest continuation returned
  accepted,      \* number of runs of getWeather that passed both validations
  speedStr,      \* argument handed to getBeaufortDescription
  description    \* value getBeaufortDescription returned for speedStr

vars == <<city, selectedDate, weather, loading, error, requests, lastResponse,
          accepted, speedStr, description>>

(***************************************************************************)
(* Bounds                                                                  *)
(***************************************************************************)
MaxCalls == 2      \* generateContent calls issued in one run of the model
MaxLen == 3        \* length of the wind-speed strings tried

(***************************************************************************)
(* Values                                                                  *)
(***************************************************************************)
NullMessage == "<null>"            \* null in the error cell (a string or null)
NullWeather == [type |-> "null"]   \* null in the weather cell (a record or null)
Undefined == "<undefined>"         \* undefined where a string is expected
NotANumber == -1000000             \* NaN, outside the range of the integers parsed
NotCalled == "<not called>"        \* description before the helper has run

Today == "2026-11-04"
Cities == {"", "Paris", "Oslo"}
Dates == {"", Today, "2026-11-05"}

MsgEnterCity == "Please enter a city name."
MsgSelectDate == "Please select a date."
MsgInvalidResponse ==
  "The weather service returned an invalid response. Please try again."
MsgUnexpected == "An unexpected API error occurred. Please try again later."
MsgCouldNotFind(c) ==
  "Could not find weather data for \"" \o c \o "\". Please check the spelling."

(***************************************************************************)
(* The external call.  generateContent either rejects with a thrown value  *)
(* or resolves to a response whose text is a string or undefined.          *)
(***************************************************************************)
TextOk == "{\"city\":\"Paris\",\"windSpeed\":\"10 mph\"}"
TextOkOslo == "{\"city\":\"Oslo\",\"windSpeed\":\"3 mph\"}"
TextError == "{\"error\":\"City not found.\"}"
TextErrorAndCity == "{\"city\":\"Paris\",\"error\":\"City not found.\"}"
TextEmptyErrorAndCity == "{\"city\":\"Paris\",\"error\":\"\"}"
TextEmptyObject == "{}"
TextEmptyCity == "{\"city\":\"\",\"windSpeed\":\"10 mph\"}"
TextNull == "null"
TextNumber == "42"
TextProse == "Sorry, I cannot help with that."
TextTruncated == "{\"city\":\"Par"

Texts == {TextOk, TextOkOslo, TextError, TextErrorAndCity,
          TextEmptyErrorAndCity, TextEmptyObject, TextEmptyCity, TextNull,
          TextNumber, TextProse, TextTruncated}

ErrorObject(m) == [isError |-> TRUE, message |-> m]
ThrownValues == {ErrorObject("Network error"), ErrorObject(""),
                 [isError |-> FALSE, message |-> "quota exceeded"]}

Responses ==
  [kind : {"resolve"}, text : Texts \cup {Undefined}] \cup
  [kind : {"reject"}, thrown : ThrownValues]

JsObject(c, e) == [type |-> "object", city |-> c, error |-> e]

SyntaxErrorOf(t) ==
  IF t = Undefined THEN "\"undefined\" is not valid JSON"
  ELSE "Unexpected token in JSON: " \o t

\* JSON.parse on the texts above: the parsed value, or the SyntaxError thrown
JSONparse(t) ==
  CASE t = TextOk -> [ok |-> TRUE, value |-> JsObject("Paris", Undefined)]
    [] t = TextOkOslo -> [ok |-> TRUE, value |-> JsObject("Oslo", Undefined)]
    [] t = TextError ->
         [ok |-> TRUE, value |-> JsObject(Undefined, "City not found.")]
    [] t = TextErrorAndCity ->
         [ok |-> TRUE, value |-> JsObject("Paris", "City not found.")]
    [] t = TextEmptyErrorAndCity ->
         [ok |-> TRUE, value |-> JsObject("Paris", "")]
    [] t = TextEmptyObject ->
         [ok |-> TRUE, value |-> JsObject(Undefined, Undefined)]
    [] t = TextEmptyCity -> [ok |-> TRUE, value |-> JsObject("", Undefined)]
    [] t = TextNull -> [ok |-> TRUE, value |-> NullWeather]
    [] t = TextNumber -> [ok |-> TRUE, value |-> [type |-> "number"]]
    [] OTHER -> [ok |-> FALSE, thrown |-> ErrorObject(SyntaxErrorOf(t))]

\* JavaScript truthiness of a string-or-undefined property value
Truthy(v) == v # Undefined /\ v # ""

(***************************************************************************)
(* getWeather, lines 142-239                                               *)
(***************************************************************************)
\* Validate without the date check of lines 148-151
ValidateCityOnly(c, d) ==
  IF c = "" THEN MsgEnterCity ELSE NullMessage

\* lines 144-151: the message of the failed check, or NullMessage
Validate(c, d) ==
  IF c = "" THEN MsgEnterCity
  ELSE IF d = "" THEN MsgSelectDate
  ELSE NullMessage

\* the controls without their disabled attribute
NeverDisabled == FALSE

\* disabled={loading} on both inputs and the button, lines 251, 260, 263
Disabled == loading

\* line 154 left out: the previous result is kept
KeptWeather(w) == w

\* setWeather(null), line 154
ClearedWeather(w) == NullWeather

\* line 155 left out: the previous message is kept
KeptError(e) == e

\* setError(null), line 155
ClearedError(e) == NullMessage

\* a call skipped when an earlier completed call had the same city and date
IssueCallCached(c, d) ==
  requests' =
    IF \E i \in DOMAIN requests :
         /\ requests[i].status = "done"
         /\ requests[i].city = c
         /\ requests[i].date = d
    THEN requests
    ELSE Append(requests,
           [city |-> c, date |-> d, status |-> "pending",
            resp |-> [kind |-> "none"]])

\* lines 158-159: one generateContent call, for the city and date rendered
IssueCall(c, d) ==
  requests' = Append(requests,
     [city |-> c, date |-> d, status |-> "pending", resp |-> [kind |-> "none"]])

\* the inner catch rethrowing the SyntaxError it caught
ParseResponseRethrow(text) ==
  LET p == JSONparse(text) IN
  IF p.ok THEN [threw |-> FALSE, value |-> p.value]
  ELSE [threw |-> TRUE, thrown |-> p.thrown]

\* lines 214-220: the inner try/catch around JSON.parse(response.text)
ParseResponse(text) ==
  LET p == JSONparse(text) IN
  IF p.ok THEN [threw |-> FALSE, value |-> p.value]
  ELSE [threw |-> TRUE, thrown |-> ErrorObject(MsgInvalidResponse)]

\* a property read v.name; only reading a property of null throws
Property(v, name) ==
  IF v.type = "object" THEN v[name] ELSE Undefined

\* the city test placed before the error test
ClassifyCityFirst(v, c) ==
  IF v = NullWeather
  THEN [threw |-> TRUE,
        thrown |-> ErrorObject("Cannot read properties of null (reading 'error')")]
  ELSE IF Truthy(Property(v, "city"))
  THEN [threw |-> FALSE, setsWeather |-> TRUE, setsError |-> FALSE,
        weather |-> v]
  ELSE IF Truthy(Property(v, "error"))
  THEN [threw |-> FALSE, setsWeather |-> FALSE, setsError |-> TRUE,
        error |-> Property(v, "error")]
  ELSE [threw |-> FALSE, setsWeather |-> FALSE, setsError |-> TRUE,
        error |-> MsgCouldNotFind(c)]

\* the city test of line 224 left out
ClassifyNoCityTest(v, c) ==
  IF v = NullWeather
  THEN [threw |-> TRUE,
        thrown |-> ErrorObject("Cannot read properties of null (reading 'error')")]
  ELSE IF Truthy(Property(v, "error"))
  THEN [threw |-> FALSE, setsWeather |-> FALSE, setsError |-> TRUE,
        error |-> Property(v, "error")]
  ELSE [threw |-> FALSE, setsWeather |-> TRUE, setsError |-> FALSE,
        weather |-> v]

\* lines 222-228: the state setters called for the parsed value v, or the
\* TypeError thrown by reading a property of null
Classify(v, c) ==
  IF v = NullWeather
  THEN [threw |-> TRUE,
        thrown |-> ErrorObject("Cannot read properties of null (reading 'error')")]
  ELSE IF Truthy(Property(v, "error"))
  THEN [threw |-> FALSE, setsWeather |-> FALSE, setsError |-> TRUE,
        error |-> Property(v, "error")]
  ELSE IF ~Truthy(Property(v, "city"))
  THEN [threw |-> FALSE, setsWeather |-> FALSE, setsError |-> TRUE,
        error |-> MsgCouldNotFind(c)]
  ELSE [threw |-> FALSE, setsWeather |-> TRUE, setsError |-> FALSE,
        weather |-> v]

\* lines 229-235: the catch block
Catch(thrown) ==
  [threw |-> FALSE, setsWeather |-> FALSE, setsError |-> TRUE,
   error |-> IF thrown.isError THEN thrown.message ELSE MsgUnexpected]

\* lines 157-235: the try statement from the point the awaited call settles
TryBody(resp, c) ==
  IF resp.kind = "reject" THEN Catch(resp.thrown)
  ELSE LET p == ParseResponse(resp.text) IN
       IF p.threw THEN Catch(p.thrown)
       ELSE LET k == Classify(p.value, c) IN
            IF k.threw THEN Catch(k.thrown) ELSE k

\* setLoading(false) placed after the try body instead of in a finally block
FinallySkipped(l) == l

\* lines 236-238: the finally block
Finally(l) == FALSE

Outstanding == {i \in DOMAIN requests : requests[i].status # "done"}

(***************************************************************************)
(* Actions of the controller                                               *)
(***************************************************************************)
Init ==
  /\ city = ""
  /\ selectedDate = Today
  /\ weather = NullWeather
  /\ loading = FALSE
  /\ error = NullMessage
  /\ requests = <<>>
  /\ lastResponse = [kind |-> "none"]
  /\ accepted = 0
  /\ speedStr = ""
  /\ description = NotCalled

\* onChange of the city input, line 248
setCity ==
  /\ ~Disabled
  /\ \E v \in Cities : city' = v
  /\ UNCHANGED <<selectedDate, weather, loading, error, requests,
                 lastResponse, accepted, speedStr, description>>

\* onChange of the date input, line 257
setSelectedDate ==
  /\ ~Disabled
  /\ \E v \in Dates : selectedDate' = v
  /\ UNCHANGED <<city, weather, loading, error, requests, lastResponse,
                 accepted, speedStr, description>>

\* onSubmit of the form: getWeather up to the await, lines 142-159.  The
\* handler is run with whatever city and date are rendered: its own tests of
\* lines 144-151 are the gate for empty fields (the required attributes of
\* lines 252 and 261 repeat that test in the browser and stop nothing the
\* handler lets through).  A submit event reaches the form only while the
\* button is enabled.
getWeather ==
  /\ ~Disabled
  /\ IF Validate(city, selectedDate) # NullMessage
     THEN /\ error' = Validate(city, selectedDate)
          /\ UNCHANGED <<weather, loading, requests, accepted>>
     ELSE /\ Len(requests) < MaxCalls
          /\ accepted' = accepted + 1
          /\ loading' = TRUE
          /\ weather' = ClearedWeather(weather)
          /\ error' = ClearedError(error)
          /\ IssueCall(city, selectedDate)
  /\ UNCHANGED <<city, selectedDate, lastResponse, speedStr, description>>

\* the generateContent call of request i resolves or rejects
Settle ==
  \E i \in DOMAIN requests, r \in Responses :
    /\ requests[i].status = "pending"
    /\ requests' = [requests EXCEPT ![i].status = "settled", ![i].resp = r]
    /\ UNCHANGED <<city, selectedDate, weather, loading, error, lastResponse,
                   accepted, speedStr, description>>

\* getWeather from the await to its end, lines 159-238, for request i
Resume ==
  \E i \in DOMAIN requests :
    /\ requests[i].status = "settled"
    /\ LET out == TryBody(requests[i].resp, requests[i].city) IN
         /\ weather' = IF out.setsWeather THEN out.weather ELSE weather
         /\ error' = IF out.setsError THEN out.error ELSE error
    /\ loading' = Finally(loading)
    /\ lastResponse' = requests[i].resp
    /\ requests' = [requests EXCEPT ![i].status = "done",
                                    ![i].resp = [kind |-> "none"]]
    /\ UNCHANGED <<city, selectedDate, accepted, speedStr, description>>

Next == setCity \/ setSelectedDate \/ getWeather \/ Settle \/ Resume

Spec == Init /\ [][Next]_vars

\* the continuation of a settled await is a queued microtask: it runs
FairSpec == Spec /\ WF_vars(Resume)

TypeOK ==
  /\ city \in Cities
  /\ selectedDate \in Dates
  /\ loading \in BOOLEAN
  /\ accepted \in 0..MaxCalls
  /\ Len(requests) <= MaxCalls

(***************************************************************************)
(* getBeaufortDescription, lines 66-81                                     *)
(***************************************************************************)
DigitChars == {"0", "1", "2", "3", "4", "5", "6", "7", "8", "9"}
OtherChars == {" ", "-", "+", ".", "N", "/", "A", "m"}
Chars == DigitChars \cup OtherChars

DigitValue(c) ==
  CASE c = "0" -> 0 [] c = "1" -> 1 [] c = "2" -> 2 [] c = "3" -> 3
    [] c = "4" -> 4 [] c = "5" -> 5 [] c = "6" -> 6 [] c = "7" -> 7
    [] c = "8" -> 8 [] c = "9" -> 9

RECURSIVE StringsUpTo(_)
StringsUpTo(n) ==
  IF n = 0 THEN {""}
  ELSE LET S == StringsUpTo(n - 1) IN S \cup {t \o c : t \in S, c \in Chars}

SpeedStrings == StringsUpTo(MaxLen)

\* parseInt step 2: leading white space is removed
RECURSIVE TrimStart(_)
TrimStart(t) ==
  IF t # "" /\ Head(t) = " " THEN TrimStart(Tail(t)) ELSE t

\* parseInt steps 11-16 for radix 10: the value of the longest prefix of
\* digits, NaN when that prefix is empty
RECURSIVE DigitsPrefix(_, _, _)
DigitsPrefix(t, acc, seen) ==
  IF t # "" /\ Head(t) \in DigitChars
  THEN DigitsPrefix(Tail(t), 10 * acc + DigitValue(Head(t)), TRUE)
  ELSE IF seen THEN acc ELSE NotANumber

\* parseInt(speedStr, 10), line 67
parseInt(t) ==
  LET u == TrimStart(t)
      signed == u # "" /\ Head(u) \in {"-", "+"}
      body == IF signed THEN Tail(u) ELSE u
      n == DigitsPrefix(body, 0, FALSE)
  IN IF n = NotANumber THEN NotANumber
     ELSE IF signed /\ Head(u) = "-" THEN 0 - n ELSE n

\* the thresholds read as exclusive upper bounds
getBeaufortDescriptionExclusive(t) ==
  LET speed == parseInt(t) IN
  IF speed = NotANumber THEN t
  ELSE IF speed < 1 THEN "Calm"
  ELSE IF speed < 3 THEN "Light air"
  ELSE IF speed < 7 THEN "Light breeze"
  ELSE IF speed < 12 THEN "Gentle breeze"
  ELSE IF speed < 18 THEN "Moderate breeze"
  ELSE IF speed < 24 THEN "Fresh breeze"
  ELSE IF speed < 31 THEN "Strong breeze"
  ELSE IF speed < 38 THEN "High wind"
  ELSE IF speed < 46 THEN "Gale"
  ELSE IF speed < 54 THEN "Strong gale"
  ELSE "Storm"

\* lines 66-81
getBeaufortDescription(t) ==
  LET speed == parseInt(t) IN
  IF speed = NotANumber THEN t
  ELSE IF speed <= 1 THEN "Calm"
  ELSE IF speed <= 3 THEN "Light air"
  ELSE IF speed <= 7 THEN "Light breeze"
  ELSE IF speed <= 12 THEN "Gentle breeze"
  ELSE IF speed <= 18 THEN "Moderate breeze"
  ELSE IF speed <= 24 THEN "Fresh breeze"
  ELSE IF speed <= 31 THEN "Strong breeze"
  ELSE IF speed <= 38 THEN "High wind"
  ELSE IF speed <= 46 THEN "Gale"
  ELSE IF speed <= 54 THEN "Strong gale"
  ELSE "Storm"

\* the helper applied to every wind-speed string of the bounded alphabet
BeaufortInit ==
  /\ city = ""
  /\ selectedDate = Today
  /\ weather = NullWeather
  /\ loading = FALSE
  /\ error = NullMessage
  /\ requests = <<>>
  /\ lastResponse = [kind |-> "none"]
  /\ accepted = 0
  /\ speedStr \in SpeedStrings
  /\ description = NotCalled

\* line 281: getBeaufortDescription(weather.windSpeed)
Describe ==
  /\ description = NotCalled
  /\ description' = getBeaufortDescription(speedStr)
  /\ UNCHANGED <<city, selectedDate, weather, loading, error, requests,
                 lastResponse, accepted, speedStr>>

BeaufortNext == Describe

BeaufortSpec == BeaufortInit /\ [][BeaufortNext]_vars

(***************************************************************************)
(* Properties                                                              *)
(***************************************************************************)
\* the step in which the continuation of request i runs to its end
Resumes(i) ==
  /\ i \in DOMAIN requests
  /\ requests[i].status = "settled"
  /\ i \in DOMAIN requests'
  /\ requests'[i].status = "done"

Resolved(r) == r.resp.kind = "resolve"
Parses(r) == Resolved(r) /\ JSONparse(r.resp.text).ok
Parsed(r) == JSONparse(r.resp.text).value
IsObject(v) == v.type = "object"
NonEmptyError(v) == IsObject(v) /\ v.error \notin {Undefined, ""}
NonEmptyCity(v) == IsObject(v) /\ v.city \notin {Undefined, ""}
NoErrorField(v) == ~IsObject(v) \/ v.error = Undefined
Done(i) == i \in DOMAIN requests /\ requests[i].status = "done"

\* C1: a submission with an empty city or an empty date issues no call; it
\* only sets the validation message (the city message for an empty city,
\* otherwise the date message) and loading stays false, whatever the state.
C1_ValidationIssuesNoCall ==
  [][(getWeather /\ (city = "" \/ selectedDate = ""))
       => /\ requests' = requests
          /\ loading = FALSE /\ loading' = FALSE
          /\ error' = IF city = "" THEN MsgEnterCity ELSE MsgSelectDate
          /\ UNCHANGED <<city, selectedDate, weather, accepted>>]_vars

C1_Witness ==
  /\ selectedDate = "" /\ city # ""
  /\ error = MsgSelectDate
  /\ weather # NullWeather
  /\ ~loading
  /\ Len(requests) = 1 /\ accepted = 1

\* C2: when the parsed payload carries a non-empty error field, the request
\* ends with that text as the error message, no result stored and loading
\* false, whatever the other fields of the payload are (a city included).
C2_ErrorFieldAuthoritative ==
  [][\A i \in DOMAIN requests :
       (Resumes(i) /\ Parses(requests[i]) /\ NonEmptyError(Parsed(requests[i])))
         => /\ error' = Parsed(requests[i]).error
            /\ weather' = NullWeather
            /\ loading' = FALSE]_vars

C2_Witness ==
  /\ Len(requests) = 1 /\ Done(1)
  /\ lastResponse = [kind |-> "resolve", text |-> TextErrorAndCity]
  /\ error = "City not found." /\ weather = NullWeather /\ ~loading

\* the outcome of a completed request, success being decided by good
OutcomeRule(i, good) ==
  LET r == requests[i] IN
  /\ (weather' # NullWeather) <=> good
  /\ good => (weather' = Parsed(r) /\ error' = NullMessage)
  /\ ~good => (weather' = NullWeather /\ error' # NullMessage)
  /\ (Parses(r) /\ Parsed(r) # NullWeather /\ ~NonEmptyError(Parsed(r))
        /\ ~NonEmptyCity(Parsed(r)))
       => error' = MsgCouldNotFind(r.city)
  /\ loading' = FALSE

\* C3 as stated: a request ends in success iff the parsed payload has a
\* non-empty city and no error field; otherwise weather stays null and an
\* error message is set, the missing-city message naming the submitted city.
C3_SuccessIffCityAndNoErrorField ==
  [][\A i \in DOMAIN requests :
       Resumes(i) =>
         OutcomeRule(i, /\ Parses(requests[i])
                        /\ NonEmptyCity(Parsed(requests[i]))
                        /\ NoErrorField(Parsed(requests[i])))]_vars

\* C3 amended: a request ends in success iff the parsed payload has a
\* non-empty city and no non-empty error field (an error field that is the
\* empty string counts as absent); otherwise weather stays null and an error
\* message is set, the missing-city message (shown for a parsed value other
\* than null with neither) naming the submitted city.
C3_SuccessIffCityAndNoNonEmptyError ==
  [][\A i \in DOMAIN requests :
       Resumes(i) =>
         OutcomeRule(i, /\ Parses(requests[i])
                        /\ NonEmptyCity(Parsed(requests[i]))
                        /\ ~NonEmptyError(Parsed(requests[i])))]_vars

C3_Witness ==
  /\ Len(requests) = 1 /\ Done(1)
  /\ lastResponse = [kind |-> "resolve", text |-> TextEmptyErrorAndCity]
  /\ weather = JsObject("Paris", "") /\ error = NullMessage /\ ~loading

\* C4: when JSON.parse rejects the response text, the request ends with the
\* fixed invalid-response message, no result stored, and the message is
\* neither the parse failure's message nor the raw response text.
C4_MalformedResponseMessage ==
  [][\A i \in DOMAIN requests :
       (Resumes(i) /\ Resolved(requests[i]) /\ ~Parses(requests[i]))
         => /\ error' =
                 "The weather service returned an invalid response. Please try again."
            /\ error' # JSONparse(requests[i].resp.text).thrown.message
            /\ error' # requests[i].resp.text
            /\ weather' = NullWeather
            /\ loading' = FALSE]_vars

C4_Witness ==
  /\ Len(requests) = 1 /\ Done(1)
  /\ lastResponse = [kind |-> "resolve", text |-> TextProse]
  /\ error = MsgInvalidResponse /\ weather = NullWeather /\ ~loading

\* C5: while a request is in flight (loading is true) the stored result and
\* the error message are both null.
C5_NoStaleDataWhileLoading ==
  loading => (weather = NullWeather /\ error = NullMessage)

C5_Witness ==
  /\ loading
  /\ Len(requests) = 2
  /\ Done(1) /\ lastResponse.kind = "reject"
  /\ requests[2].status = "pending"

\* C6: at most one external request is outstanding at any time, and one is
\* outstanding only while the controls are disabled.
C6_AtMostOneOutstanding ==
  /\ Cardinality(Outstanding) <= 1
  /\ (Outstanding # {}) => loading

C6_Witness ==
  /\ Len(requests) = 2
  /\ Done(1)
  /\ Outstanding = {2}

\* C7: every submission that passes validation issues exactly one call for
\* the city and date submitted, nothing else issues a call (no retry, no
\* reuse of an earlier result), and after each completion the result shown
\* is the parsed payload of that very call or none, never with an error.
C7_OneCallPerSubmission ==
  /\ [](Len(requests) = accepted)
  /\ [][/\ (accepted' = accepted + 1) =>
             requests' = Append(requests,
               [city |-> city, date |-> selectedDate, status |-> "pending",
                resp |-> [kind |-> "none"]])
        /\ (accepted' = accepted) => Len(requests') = Len(requests)
        /\ \A i \in DOMAIN requests :
             Resumes(i) =>
               /\ (weather' # NullWeather) =>
                    (Parses(requests[i]) /\ weather' = Parsed(requests[i]))
               /\ (weather' = NullWeather) # (error' = NullMessage)]_vars

C7_Witness ==
  /\ Len(requests) = 2 /\ accepted = 2
  /\ requests[1].city = requests[2].city
  /\ requests[1].date = requests[2].date
  /\ Done(1) /\ Done(2)
  /\ lastResponse = [kind |-> "reject", thrown |-> ErrorObject("Network error")]
  /\ weather = NullWeather /\ error = "Network error"

Thresholds == <<1, 3, 7, 12, 18, 24, 31, 38, 46, 54>>
Labels == <<"Calm", "Light air", "Light breeze", "Gentle breeze",
            "Moderate breeze", "Fresh breeze", "Strong breeze", "High wind",
            "Gale", "Strong gale">>

\* the label of the first band whose threshold is at least n, else Storm
BandLabel(n) ==
  IF \E k \in DOMAIN Thresholds : n <= Thresholds[k]
  THEN Labels[CHOOSE k \in DOMAIN Thresholds :
                /\ n <= Thresholds[k]
                /\ \A j \in DOMAIN Thresholds : n <= Thresholds[j] => k <= j]
  ELSE "Storm"

\* t, after leading spaces and at most one sign, starts with a digit
HasLeadingInteger(t) ==
  \E k \in 0..Len(t) :
    /\ \A j \in 1..k : SubSeq(t, j, j) = " "
    /\ \/ k + 1 <= Len(t) /\ SubSeq(t, k + 1, k + 1) \in DigitChars
       \/ /\ k + 2 <= Len(t)
          /\ SubSeq(t, k + 1, k + 1) \in {"-", "+"}
          /\ SubSeq(t, k + 2, k + 2) \in DigitChars

\* C8: getBeaufortDescription returns its input unchanged when no leading
\* integer can be parsed; otherwise the label of the first band whose
\* inclusive upper threshold in {1,3,7,12,18,24,31,38,46,54} is >= the
\* parsed integer, 'Storm' above 54; "0" gives Calm, "5" Light breeze,
\* "60" Storm and "N/A" is returned unchanged.
C8_BeaufortBands ==
  description # NotCalled =>
    /\ ~HasLeadingInteger(speedStr) => description = speedStr
    /\ HasLeadingInteger(speedStr) =>
         /\ parseInt(speedStr) # NotANumber
         /\ description = BandLabel(parseInt(speedStr))
    /\ speedStr = "0" => description = "Calm"
    /\ speedStr = "5" => description = "Light breeze"
    /\ speedStr = "60" => description = "Storm"
    /\ speedStr = "N/A" => description = "N/A"

C8_Witness ==
  /\ speedStr = "54"
  /\ description = "Strong gale"

C10_LoadingAlwaysEnds ==
  /\ [][\A i \in DOMAIN requests :
          Resumes(i) =>
            /\ loading' = FALSE
            /\ (weather' = NullWeather) # (error' = NullMessage)]_vars
  /\ [](loading => Outstanding # {})
  /\ ((\E i \in DOMAIN requests : requests[i].status = "settled") ~> ~loading)

C10_Witness ==
  /\ Len(requests) = 1
  /\ Done(1)
  /\ lastResponse.kind = "reject"
  /\ ~lastResponse.thrown.isError
  /\ ~loading
  /\ weather = NullWeather
  /\ error = MsgUnexpected

====
